---- MODULE Spec2Model ----
(***************************************************************************)
(* Model of aws_manager.py: the AWSManager class and the interactive menu  *)
(* loop of the __main__ block.                                             *)
(*                                                                         *)
(* The three boto3 clients are modelled as a recording double: every      *)
(* client call made while one menu choice runs is appended to `calls`,     *)
(* every logger call to `logs`, every printed table to `printed`.  The     *)
(* inventory held by the provider (reservations, dbs, groups) is state; a  *)
(* successful start/stop/update call changes it.  Whether a client call    *)
(* succeeds is an input of the action (a fault record chosen with \E).     *)
(***************************************************************************)
EXTENDS Integers, Sequences, FiniteSets, TLC

VARIABLES
    reservations,   \* provider: describe_instances()["Reservations"]
    dbs,            \* provider: describe_db_instances()["DBInstances"]
    groups,         \* provider: describe_auto_scaling_groups()["AutoScalingGroups"]
    pc,             \* "menu": at Prompt.ask; "pause": at the console.input that
                    \* ends run_choice; "exited"; "crashed": uncaught exception
    choice,         \* the choice that was run or that ended the loop ("" at the menu)
    calls,          \* client calls issued while the choice ran
    logs,           \* logger calls issued while the choice ran
    printed,        \* tables printed while the choice ran
    faults          \* how the provider answered while the choice ran

vars == <<reservations, dbs, groups, pc, choice, calls, logs, printed, faults>>

(***************************************************************************)
(* Bounds of the model.                                                    *)
(***************************************************************************)
MaxInstances == 2   \* compute instances over all reservations
MaxDb == 2          \* database instances
MaxAsg == 3         \* scaling groups
MaxResources == 3   \* instances, databases and groups together

(***************************************************************************)
(* Provider data.                                                          *)
(***************************************************************************)
NameTag == [Key |-> "Name", Value |-> "web"]
ManagedTag == [Key |-> "AmazonECSManaged", Value |-> "true"]

\* The tag lists an instance can carry.  <<>> stands for an instance that
\* has no tags: instance['Tags'] raises.
TagChoices == { <<>>, <<NameTag>>, <<ManagedTag>>, <<NameTag, ManagedTag>> }

Instance(id, tags) ==
    [InstanceId |-> id, InstanceType |-> "t2.micro", Tags |-> tags,
     State |-> "stopped"]

\* The ways of splitting instance ids lo..hi, in order, into reservations of
\* at least one instance each.
RECURSIVE Shapes(_, _)
Shapes(lo, hi) ==
    IF lo > hi THEN { <<>> }
    ELSE UNION { { <<[j \in 1..(cut - lo + 1) |-> lo + j - 1]>> \o rest :
                       rest \in Shapes(cut + 1, hi) } : cut \in lo..hi }

ReservationChoices ==
    UNION { UNION { { [r \in DOMAIN shape |->
                          [Instances |-> [k \in DOMAIN shape[r] |->
                               Instance(shape[r][k], tags[shape[r][k]])]]] :
                        tags \in [1..n -> TagChoices] } :
                    shape \in Shapes(1, n) } :
            n \in 0..MaxInstances }

DbChoices ==
    { [i \in 1..n |-> [DBInstanceIdentifier |-> i,
                       DBInstanceClass |-> "db.t3.micro",
                       DBInstanceStatus |-> "available"]] : n \in 0..MaxDb }

AsgChoices ==
    { [i \in 1..n |-> [AutoScalingGroupName |-> i, MinSize |-> 0,
                       MaxSize |-> 1, DesiredCapacity |-> 1]] : n \in 0..MaxAsg }

InstanceIds(res) ==
    UNION { { res[r].Instances[k].InstanceId : k \in DOMAIN res[r].Instances } :
            r \in DOMAIN res }

DbIds(response) == { response[i].DBInstanceIdentifier : i \in DOMAIN response }

AsgNames(response) == { response[i].AutoScalingGroupName : i \in DOMAIN response }

(***************************************************************************)
(* The recording double: one entry per client call and per logger call.    *)
(* `args` of update_auto_scaling_group is <<MinSize, MaxSize,              *)
(* DesiredCapacity>>; every other call has no further arguments.  A        *)
(* describe call has target 0.                                             *)
(***************************************************************************)
Call(api, target, args) == [api |-> api, target |-> target, args |-> args]

Log(level, text, target, detail) ==
    [level |-> level, text |-> text, target |-> target, detail |-> detail]

\* Variant of IsSkipped that reads the tag's key instead of its value.
IsSkipped_key(instance) == instance.Tags[1].Key = "true"

\* The test that makes the loops skip an instance.
IsSkipped(instance) == instance.Tags[1].Value = "true"

\* What the provider does with the calls of one operation: `describe` says
\* the enumeration call raises; the other field says how each later call
\* ends.  The compute and scaling-group loops end at the first call that
\* raises, so `reject` names at most one target.
AtMostOne(S) == { {} } \cup { {x} : x \in S }

Ec2Faults(res) ==
    { [describe |-> TRUE, reject |-> {}] }
        \cup { [describe |-> FALSE, reject |-> s] : s \in AtMostOne(InstanceIds(res)) }

RdsOutcomes == { "ok", "InvalidDBInstanceState", "AccessDenied" }

RdsFaults(response) ==
    { [describe |-> TRUE, outcome |-> [id \in DbIds(response) |-> "ok"]] }
        \cup { [describe |-> FALSE, outcome |-> o] :
                 o \in [DbIds(response) -> RdsOutcomes] }

AsgFaults(response) ==
    { [describe |-> TRUE, reject |-> {}] }
        \cup { [describe |-> FALSE, reject |-> s] : s \in AtMostOne(AsgNames(response)) }

\* The provider's inventory after a successful start_instances/stop_instances.
SetInstanceState(res, id, state) ==
    [r \in DOMAIN res |->
        [Instances |-> [k \in DOMAIN res[r].Instances |->
            IF res[r].Instances[k].InstanceId = id
            THEN [res[r].Instances[k] EXCEPT !.State = state]
            ELSE res[r].Instances[k]]]]

\* ... after a successful start_db_instance/stop_db_instance.
SetDbStatus(response, id, status) ==
    [i \in DOMAIN response |->
        IF response[i].DBInstanceIdentifier = id
        THEN [response[i] EXCEPT !.DBInstanceStatus = status]
        ELSE response[i]]

\* ... after a successful update_auto_scaling_group.
SetAsgSizes(response, name, min, max, desired) ==
    [i \in DOMAIN response |->
        IF response[i].AutoScalingGroupName = name
        THEN [response[i] EXCEPT !.MinSize = min, !.MaxSize = max,
                                 !.DesiredCapacity = desired]
        ELSE response[i]]

(***************************************************************************)
(* start_ec2_instances / stop_ec2_instances.                               *)
(***************************************************************************)
\* The two nested loops over the describe_instances response, from
\* reservation r, instance k on.  Any exception leaves both loops for the
\* handler of the method, which logs it.
RECURSIVE ec2_loop(_, _, _, _, _, _, _, _)
ec2_loop(api, state, text, response, r, k, reject, acc) ==
    IF r > Len(response) THEN acc
    ELSE IF k > Len(response[r].Instances)
    THEN ec2_loop(api, state, text, response, r + 1, 1, reject, acc)
    ELSE LET instance == response[r].Instances[k]
             instance_id == instance.InstanceId
         IN  IF instance.Tags = <<>>
             THEN [acc EXCEPT !.logs = Append(@, Log("error", "KeyError", instance_id, <<>>))]
             ELSE IF IsSkipped(instance)
             THEN ec2_loop(api, state, text, response, r, k + 1, reject, acc)
             ELSE LET issued == [acc EXCEPT !.calls = Append(@, Call(api, instance_id, <<>>))]
                  IN  IF instance_id \in reject
                      THEN [issued EXCEPT
                               !.logs = Append(@, Log("error", "ClientError", instance_id, <<>>))]
                      ELSE ec2_loop(api, state, text, response, r, k + 1, reject,
                               [issued EXCEPT
                                   !.reservations = SetInstanceState(@, instance_id, state),
                                   !.logs = Append(@, Log("info", text, instance_id,
                                                          <<instance.Tags[1].Value>>))])

\* Variant of ec2_instances without the else branch that raises on an empty
\* enumeration.
ec2_instances_silent(api, state, text, none, res, fault) ==
    LET described == [calls |-> <<Call("describe_instances", 0, <<>>)>>,
                      logs |-> <<>>, reservations |-> res]
    IN  IF fault.describe
        THEN [described EXCEPT !.logs = <<Log("error", "ClientError", 0, <<>>)>>]
        ELSE ec2_loop(api, state, text, res, 1, 1, fault.reject, described)

ec2_instances(api, state, text, none, res, fault) ==
    LET described == [calls |-> <<Call("describe_instances", 0, <<>>)>>,
                      logs |-> <<>>, reservations |-> res]
    IN  IF fault.describe
        THEN [described EXCEPT !.logs = <<Log("error", "ClientError", 0, <<>>)>>]
        ELSE IF res = <<>>
        THEN [described EXCEPT !.logs = <<Log("error", none, 0, <<>>)>>]
        ELSE ec2_loop(api, state, text, res, 1, 1, fault.reject, described)

start_ec2_instances(res, fault) ==
    ec2_instances("start_instances", "running", "Started EC2 instance",
                  "No EC2 Instance found!", res, fault)

stop_ec2_instances(res, fault) ==
    ec2_instances("stop_instances", "stopped", "Stopped EC2 instance",
                  "No EC2 instances found!", res, fault)

(***************************************************************************)
(* start_rds_db / stop_rds_db.                                             *)
(***************************************************************************)
\* Variants of IsTolerated: the code is compared with a name the provider
\* never sends; every code is tolerated.
IsTolerated_typo(code) == code = "InvalidDBInstanceStateFault"

IsTolerated_always(code) == code \in RdsOutcomes

\* The inner handler's test: this error is logged and the loop goes on.
IsTolerated(code) == code = "InvalidDBInstanceState"

RECURSIVE rds_loop(_, _, _, _, _, _, _, _)
rds_loop(api, status, text, invalid, response, i, outcome, acc) ==
    IF i > Len(response) THEN acc
    ELSE LET db_instance_id == response[i].DBInstanceIdentifier
             issued == [acc EXCEPT !.calls = Append(@, Call(api, db_instance_id, <<>>))]
         IN  IF outcome[db_instance_id] = "ok"
             THEN rds_loop(api, status, text, invalid, response, i + 1, outcome,
                      [issued EXCEPT
                          !.dbs = SetDbStatus(@, db_instance_id, status),
                          !.logs = Append(@, Log("info", text, db_instance_id, <<>>))])
             ELSE IF IsTolerated(outcome[db_instance_id])
             THEN rds_loop(api, status, text, invalid, response, i + 1, outcome,
                      [issued EXCEPT
                          !.logs = Append(@, Log("error", invalid, db_instance_id, <<>>))])
             ELSE [issued EXCEPT
                      !.logs = Append(@, Log("error", outcome[db_instance_id],
                                             db_instance_id, <<>>))]

rds_db(api, status, text, invalid, response, fault) ==
    LET described == [calls |-> <<Call("describe_db_instances", 0, <<>>)>>,
                      logs |-> <<>>, dbs |-> response]
    IN  IF fault.describe
        THEN [described EXCEPT !.logs = <<Log("error", "ClientError", 0, <<>>)>>]
        ELSE IF response = <<>>
        THEN [described EXCEPT !.logs = <<Log("error", "No RDS instances found.", 0, <<>>)>>]
        ELSE rds_loop(api, status, text, invalid, response, 1, fault.outcome, described)

start_rds_db(response, fault) ==
    rds_db("start_db_instance", "available", "Started RDS instance",
           "cannot be started as it is not in a valid state!", response, fault)

stop_rds_db(response, fault) ==
    rds_db("stop_db_instance", "stopped", "Stopped RDS instance",
           "cannot be stopped as it is not in a valid state", response, fault)

(***************************************************************************)
(* ec2_asg_desired_capacity.  Both handlers log and re-raise: `raised`     *)
(* tells the caller that the exception left the method.                    *)
(***************************************************************************)
\* Variant of asg_loop whose handler logs and goes on to the next group.
RECURSIVE asg_loop_continue(_, _, _, _, _, _, _)
asg_loop_continue(desired_count, min_count, max_count, asg_response, i, reject, acc) ==
    IF i > Len(asg_response) THEN acc
    ELSE LET asg == asg_response[i]
             current_capacity == asg.DesiredCapacity
             name == asg.AutoScalingGroupName
             issued == [acc EXCEPT !.calls = Append(@,
                           Call("update_auto_scaling_group", name,
                                <<min_count, max_count, desired_count>>))]
         IN  IF name \in reject
             THEN asg_loop_continue(desired_count, min_count, max_count, asg_response,
                      i + 1, reject,
                      [issued EXCEPT
                          !.logs = Append(@, Log("error",
                                       "Error occurred while updating Auto Scaling Group",
                                       name, <<>>))])
             ELSE asg_loop_continue(desired_count, min_count, max_count, asg_response,
                      i + 1, reject,
                      [issued EXCEPT
                          !.groups = SetAsgSizes(@, name, min_count, max_count, desired_count),
                          !.logs = Append(@, Log("info", "Capacity updated for Auto Scaling Group",
                                                 name, <<current_capacity, desired_count>>))])

RECURSIVE asg_loop(_, _, _, _, _, _, _)
asg_loop(desired_count, min_count, max_count, asg_response, i, reject, acc) ==
    IF i > Len(asg_response) THEN acc
    ELSE LET asg == asg_response[i]
             current_capacity == asg.DesiredCapacity
             name == asg.AutoScalingGroupName
             issued == [acc EXCEPT !.calls = Append(@,
                           Call("update_auto_scaling_group", name,
                                <<min_count, max_count, desired_count>>))]
         IN  IF name \in reject
             THEN [issued EXCEPT
                      !.logs = Append(@, Log("error",
                                   "Error occurred while updating Auto Scaling Group",
                                   name, <<>>)),
                      !.raised = TRUE]
             ELSE asg_loop(desired_count, min_count, max_count, asg_response, i + 1, reject,
                      [issued EXCEPT
                          !.groups = SetAsgSizes(@, name, min_count, max_count, desired_count),
                          !.logs = Append(@, Log("info", "Capacity updated for Auto Scaling Group",
                                                 name, <<current_capacity, desired_count>>))])

ec2_asg_desired_capacity(desired_count, min_count, max_count, asg_response, fault) ==
    LET described == [calls |-> <<Call("describe_auto_scaling_groups", 0, <<>>)>>,
                      logs |-> <<>>, groups |-> asg_response, raised |-> FALSE]
    IN  IF fault.describe
        THEN [described EXCEPT
                 !.logs = <<Log("error",
                                "Error occurred while retrieving Auto Scaling Groups",
                                0, <<>>)>>,
                 !.raised = TRUE]
        ELSE asg_loop(desired_count, min_count, max_count, asg_response, 1,
                      fault.reject, described)

(***************************************************************************)
(* stop_all_resources / start_all_resources: the three methods in order;   *)
(* the arguments of the third are positional (desired, min, max).          *)
(***************************************************************************)
all_resources(ec2, rds, asg) ==
    [calls |-> ec2.calls \o rds.calls \o asg.calls,
     logs |-> ec2.logs \o rds.logs \o asg.logs,
     reservations |-> ec2.reservations, dbs |-> rds.dbs, groups |-> asg.groups,
     raised |-> asg.raised]

\* Variant of stop_all_resources in which an error of the compute step
\* leaves the method instead of being swallowed.
stop_all_resources_propagating(res, db, asg, f_ec2, f_rds, f_asg) ==
    LET ec2 == stop_ec2_instances(res, f_ec2)
    IN  IF ec2.logs # <<>> /\ ec2.logs[Len(ec2.logs)].level = "error"
        THEN [calls |-> ec2.calls, logs |-> ec2.logs,
              reservations |-> ec2.reservations, dbs |-> db, groups |-> asg,
              raised |-> TRUE]
        ELSE all_resources(ec2, stop_rds_db(db, f_rds),
                           ec2_asg_desired_capacity(0, 0, 0, asg, f_asg))

stop_all_resources(res, db, asg, f_ec2, f_rds, f_asg) ==
    all_resources(stop_ec2_instances(res, f_ec2), stop_rds_db(db, f_rds),
                  ec2_asg_desired_capacity(0, 0, 0, asg, f_asg))

start_all_resources(res, db, asg, f_ec2, f_rds, f_asg) ==
    all_resources(start_ec2_instances(res, f_ec2), start_rds_db(db, f_rds),
                  ec2_asg_desired_capacity(0, 2, 1, asg, f_asg))

(***************************************************************************)
(* The status queries.  None of them has a handler: an exception leaves    *)
(* the method (`raised`).                                                  *)
(***************************************************************************)
Unbound == "<unbound>"

\* The loop over instance['Tags'] that looks for the Name tag; instance_name
\* keeps its former value when there is none.
RECURSIVE name_of(_, _, _)
name_of(tags, i, instance_name) ==
    IF i > Len(tags) THEN instance_name
    ELSE name_of(tags, i + 1,
                 IF tags[i].Key = "Name" THEN tags[i].Value ELSE instance_name)

RECURSIVE ec2_rows(_, _, _, _, _)
ec2_rows(response, r, k, instance_name, acc) ==
    IF r > Len(response) THEN acc
    ELSE IF k > Len(response[r].Instances)
    THEN ec2_rows(response, r + 1, 1, instance_name, acc)
    ELSE LET instance == response[r].Instances[k]
             name == name_of(instance.Tags, 1, instance_name)
         IN  IF instance.Tags = <<>> \/ name = Unbound
             THEN [acc EXCEPT !.raised = TRUE]
             ELSE ec2_rows(response, r, k + 1, name,
                      [acc EXCEPT !.rows = Append(@,
                          <<instance.InstanceId, instance.InstanceType, name,
                            instance.State>>)])

check_ec2_status(res, fails) ==
    LET described == [calls |-> <<Call("describe_instances", 0, <<>>)>>,
                      title |-> "EC2 Instances", rows |-> <<>>, raised |-> FALSE]
    IN  IF fails THEN [described EXCEPT !.raised = TRUE]
        ELSE ec2_rows(res, 1, 1, Unbound, described)

check_rds_status(rds_response, fails) ==
    [calls |-> <<Call("describe_db_instances", 0, <<>>)>>,
     title |-> "RDS Instances",
     rows |-> IF fails THEN <<>>
              ELSE [i \in DOMAIN rds_response |->
                       <<rds_response[i].DBInstanceIdentifier,
                         rds_response[i].DBInstanceClass,
                         rds_response[i].DBInstanceStatus>>],
     raised |-> fails]

check_asg_status(asg_response, fails) ==
    [calls |-> <<Call("describe_auto_scaling_groups", 0, <<>>)>>,
     title |-> "Auto Scaling Groups",
     rows |-> IF fails THEN <<>>
              ELSE [i \in DOMAIN asg_response |->
                       <<asg_response[i].AutoScalingGroupName,
                         asg_response[i].MinSize,
                         asg_response[i].MaxSize,
                         asg_response[i].DesiredCapacity>>],
     raised |-> fails]

Table(t) == [title |-> t.title, rows |-> t.rows]

\* check_status: each table is printed before the next query starts.
check_status(res, db, asg, f_ec2, f_rds, f_asg) ==
    LET ec2_table == check_ec2_status(res, f_ec2)
        rds_table == check_rds_status(db, f_rds)
        asg_table == check_asg_status(asg, f_asg)
    IN  IF ec2_table.raised
        THEN [calls |-> ec2_table.calls, printed |-> <<>>, raised |-> TRUE]
        ELSE IF rds_table.raised
        THEN [calls |-> ec2_table.calls \o rds_table.calls,
              printed |-> <<Table(ec2_table)>>, raised |-> TRUE]
        ELSE IF asg_table.raised
        THEN [calls |-> ec2_table.calls \o rds_table.calls \o asg_table.calls,
              printed |-> <<Table(ec2_table), Table(rds_table)>>, raised |-> TRUE]
        ELSE [calls |-> ec2_table.calls \o rds_table.calls \o asg_table.calls,
              printed |-> <<Table(ec2_table), Table(rds_table), Table(asg_table)>>,
              raised |-> FALSE]

(***************************************************************************)
(* The menu loop.  One action per choice runs the branch of run_choice up  *)
(* to its console.input; PressEnter returns to the loop, where show_menu   *)
(* clears the screen.  run_choice has no handler, so an exception that     *)
(* leaves the manager's method ends the program.                           *)
(***************************************************************************)
\* The provider raised nothing (also: the service was not called).
NoFault == [describe |-> FALSE]

Faults(f_ec2, f_rds, f_asg) == [ec2 |-> f_ec2, rds |-> f_rds, asg |-> f_asg]

Init ==
    /\ reservations \in ReservationChoices
    /\ dbs \in DbChoices
    /\ groups \in AsgChoices
    /\ Cardinality(InstanceIds(reservations)) + Len(dbs) + Len(groups) <= MaxResources
    /\ pc = "menu"
    /\ choice = ""
    /\ calls = <<>>
    /\ logs = <<>>
    /\ printed = <<>>
    /\ faults = Faults(NoFault, NoFault, NoFault)

\* Where the program is after run_choice ran a method that ended this way.
after(raised) == IF raised THEN "crashed" ELSE "pause"

\* Variant of Choice0 whose branch runs stop_all_resources.
Choice0_stops ==
    /\ pc = "menu"
    /\ \E f_ec2 \in Ec2Faults(reservations), f_rds \in RdsFaults(dbs),
          f_asg \in AsgFaults(groups) :
         LET r == stop_all_resources(reservations, dbs, groups, f_ec2, f_rds, f_asg)
         IN  /\ calls' = r.calls
             /\ logs' = r.logs
             /\ reservations' = r.reservations
             /\ dbs' = r.dbs
             /\ groups' = r.groups
             /\ pc' = after(r.raised)
             /\ faults' = Faults(f_ec2, f_rds, f_asg)
    /\ choice' = "0"
    /\ printed' = <<>>

Choice0 ==
    /\ pc = "menu"
    /\ \E failing \in {"none", "ec2", "rds", "asg"} :
         LET f_ec2 == failing = "ec2"
             f_rds == failing = "rds"
             f_asg == failing = "asg"
             r == check_status(reservations, dbs, groups, f_ec2, f_rds, f_asg)
         IN  /\ calls' = r.calls
             /\ printed' = r.printed
             /\ pc' = after(r.raised)
             /\ faults' = Faults([describe |-> f_ec2], [describe |-> f_rds],
                                 [describe |-> f_asg])
    /\ choice' = "0"
    /\ logs' = <<>>
    /\ UNCHANGED <<reservations, dbs, groups>>

Choice1 ==
    /\ pc = "menu"
    /\ \E f_ec2 \in Ec2Faults(reservations), f_rds \in RdsFaults(dbs),
          f_asg \in AsgFaults(groups) :
         LET r == stop_all_resources(reservations, dbs, groups, f_ec2, f_rds, f_asg)
         IN  /\ calls' = r.calls
             /\ logs' = r.logs
             /\ reservations' = r.reservations
             /\ dbs' = r.dbs
             /\ groups' = r.groups
             /\ pc' = after(r.raised)
             /\ faults' = Faults(f_ec2, f_rds, f_asg)
    /\ choice' = "1"
    /\ printed' = <<>>

Choice2 ==
    /\ pc = "menu"
    /\ \E f_ec2 \in Ec2Faults(reservations), f_rds \in RdsFaults(dbs),
          f_asg \in AsgFaults(groups) :
         LET r == start_all_resources(reservations, dbs, groups, f_ec2, f_rds, f_asg)
         IN  /\ calls' = r.calls
             /\ logs' = r.logs
             /\ reservations' = r.reservations
             /\ dbs' = r.dbs
             /\ groups' = r.groups
             /\ pc' = after(r.raised)
             /\ faults' = Faults(f_ec2, f_rds, f_asg)
    /\ choice' = "2"
    /\ printed' = <<>>

Ec2Choice(c, r, fault) ==
    /\ faults' = Faults(fault, NoFault, NoFault)
    /\ calls' = r.calls
    /\ logs' = r.logs
    /\ reservations' = r.reservations
    /\ pc' = "pause"
    /\ choice' = c
    /\ printed' = <<>>
    /\ UNCHANGED <<dbs, groups>>

Choice3 ==
    /\ pc = "menu"
    /\ \E fault \in Ec2Faults(reservations) :
         Ec2Choice("3", start_ec2_instances(reservations, fault), fault)

Choice4 ==
    /\ pc = "menu"
    /\ \E fault \in Ec2Faults(reservations) :
         Ec2Choice("4", stop_ec2_instances(reservations, fault), fault)

RdsChoice(c, r, fault) ==
    /\ faults' = Faults(NoFault, fault, NoFault)
    /\ calls' = r.calls
    /\ logs' = r.logs
    /\ dbs' = r.dbs
    /\ pc' = "pause"
    /\ choice' = c
    /\ printed' = <<>>
    /\ UNCHANGED <<reservations, groups>>

Choice5 ==
    /\ pc = "menu"
    /\ \E fault \in RdsFaults(dbs) : RdsChoice("5", start_rds_db(dbs, fault), fault)

Choice6 ==
    /\ pc = "menu"
    /\ \E fault \in RdsFaults(dbs) : RdsChoice("6", stop_rds_db(dbs, fault), fault)

AsgChoice(c, r, fault) ==
    /\ faults' = Faults(NoFault, NoFault, fault)
    /\ calls' = r.calls
    /\ logs' = r.logs
    /\ groups' = r.groups
    /\ pc' = after(r.raised)
    /\ choice' = c
    /\ printed' = <<>>
    /\ UNCHANGED <<reservations, dbs>>

\* ec2_asg_desired_capacity(min_count=0, max_count=1, desired_count=1)
Choice7 ==
    /\ pc = "menu"
    /\ \E fault \in AsgFaults(groups) :
         AsgChoice("7", ec2_asg_desired_capacity(1, 0, 1, groups, fault), fault)

\* ec2_asg_desired_capacity(min_count=0, max_count=0, desired_count=0)
Choice8 ==
    /\ pc = "menu"
    /\ \E fault \in AsgFaults(groups) :
         AsgChoice("8", ec2_asg_desired_capacity(0, 0, 0, groups, fault), fault)

\* Any other input but 'q': no branch of run_choice matches.
ChoiceOther ==
    /\ pc = "menu"
    /\ choice' = "9"
    /\ pc' = "pause"
    /\ calls' = <<>>
    /\ logs' = <<>>
    /\ printed' = <<>>
    /\ faults' = Faults(NoFault, NoFault, NoFault)
    /\ UNCHANGED <<reservations, dbs, groups>>

ChoiceQ ==
    /\ pc = "menu"
    /\ choice' = "q"
    /\ pc' = "exited"
    /\ UNCHANGED <<reservations, dbs, groups, calls, logs, printed, faults>>

\* The user answers console.input; the loop shows the menu on a cleared screen.
PressEnter ==
    /\ pc = "pause"
    /\ pc' = "menu"
    /\ choice' = ""
    /\ calls' = <<>>
    /\ logs' = <<>>
    /\ printed' = <<>>
    /\ faults' = Faults(NoFault, NoFault, NoFault)
    /\ UNCHANGED <<reservations, dbs, groups>>

Next ==
    \/ Choice0
    \/ Choice1
    \/ Choice2
    \/ Choice3
    \/ Choice4
    \/ Choice5
    \/ Choice6
    \/ Choice7
    \/ Choice8
    \/ ChoiceOther
    \/ ChoiceQ
    \/ PressEnter

Spec == Init /\ [][Next]_vars

(***************************************************************************)
(* What the recording double shows of the last choice.                     *)
(***************************************************************************)
CallsOf(apis) == SelectSeq(calls, LAMBDA c : c.api \in apis)

TargetsOf(api) ==
    LET s == CallsOf({api}) IN [i \in DOMAIN s |-> s[i].target]

ErrorsWith(texts) ==
    SelectSeq(logs, LAMBDA l : l.level = "error" /\ l.text \in texts)

ErrorsAbout(texts, target) ==
    SelectSeq(logs, LAMBDA l : l.level = "error" /\ l.text \in texts /\ l.target = target)

Ec2Api == IF choice \in {"2", "3"} THEN "start_instances" ELSE "stop_instances"
RdsApi == IF choice \in {"2", "5"} THEN "start_db_instance" ELSE "stop_db_instance"

InvalidStateTexts ==
    { "cannot be started as it is not in a valid state!",
      "cannot be stopped as it is not in a valid state" }

\* The service a client call belongs to, in the order of stop_all_resources.
Phase(api) ==
    CASE api \in {"describe_instances", "start_instances", "stop_instances"} -> 1
      [] api \in {"describe_db_instances", "start_db_instance", "stop_db_instance"} -> 2
      [] OTHER -> 3

\* The sizes a group has after update_auto_scaling_group(args).
HasSizes(asg, args) ==
    /\ asg.MinSize = args[1]
    /\ asg.MaxSize = args[2]
    /\ asg.DesiredCapacity = args[3]

(***************************************************************************)
(* C1: no start_instances or stop_instances call ever names an instance    *)
(* whose first tag has the value "true", whatever choices were run.        *)
(***************************************************************************)
C1_ManagedInstancesUntouched ==
    \A i \in DOMAIN calls :
        calls[i].api \in {"start_instances", "stop_instances"} =>
            \A r \in DOMAIN reservations :
                \A k \in DOMAIN reservations[r].Instances :
                    LET instance == reservations[r].Instances[k]
                    IN  instance.InstanceId = calls[i].target =>
                            /\ instance.Tags # <<>>
                            /\ instance.Tags[1].Value # "true"

\* A managed instance comes first in the enumeration and the instance after
\* it was stopped or started.
C1_Witness ==
    /\ Len(reservations) >= 1
    /\ reservations[1].Instances[1].Tags = <<ManagedTag>>
    /\ Len(TargetsOf(Ec2Api)) = 1
    /\ TargetsOf(Ec2Api)[1] # reservations[1].Instances[1].InstanceId

(***************************************************************************)
(* C2: stop_all_resources calls the compute, the database and the scaling  *)
(* service in that order; each of the three enumerations is requested on   *)
(* every invocation, whatever the earlier steps met; it starts nothing and *)
(* every capacity update carries (min, max, desired) = (0, 0, 0).          *)
(***************************************************************************)
C2_StopAllOrder ==
    choice = "1" =>
        /\ \A i, j \in DOMAIN calls :
               i < j => Phase(calls[i].api) <= Phase(calls[j].api)
        /\ Len(CallsOf({"describe_instances"})) = 1
        /\ Len(CallsOf({"describe_db_instances"})) = 1
        /\ Len(CallsOf({"describe_auto_scaling_groups"})) = 1
        /\ CallsOf({"start_instances", "start_db_instance"}) = <<>>
        /\ \A i \in DOMAIN calls :
               calls[i].api = "update_auto_scaling_group" => calls[i].args = <<0, 0, 0>>

\* The compute enumeration raised, a database call was refused, and the
\* capacity update was still issued.
C2_Witness ==
    /\ choice = "1"
    /\ faults.ec2.describe
    /\ Len(ErrorsWith({"AccessDenied"})) = 1
    /\ Len(CallsOf({"update_auto_scaling_group"})) >= 1

(***************************************************************************)
(* C3: every update_auto_scaling_group request of start_all_resources      *)
(* carries DesiredCapacity = 1, MinSize = 0, MaxSize = 2.                   *)
(***************************************************************************)
C3_StartAllCapacity ==
    choice = "2" =>
        \A i \in DOMAIN calls :
            calls[i].api = "update_auto_scaling_group" => calls[i].args = <<0, 2, 1>>

(***************************************************************************)
(* C4: when the database enumeration succeeds and the provider refuses     *)
(* nothing but with InvalidDBInstanceState, start_rds_db / stop_rds_db     *)
(* attempt every instance once, in enumeration order, and log an error     *)
(* for exactly the instances that were refused.                            *)
(***************************************************************************)
C4_InvalidStateContinues ==
    (/\ choice \in {"1", "2", "5", "6"}
     /\ ~faults.rds.describe
     /\ \A id \in DbIds(dbs) : faults.rds.outcome[id] # "AccessDenied")
    =>
        /\ TargetsOf(RdsApi) = [i \in DOMAIN dbs |-> dbs[i].DBInstanceIdentifier]
        /\ \A id \in DbIds(dbs) :
               Len(ErrorsAbout(InvalidStateTexts, id)) =
                   IF faults.rds.outcome[id] = "InvalidDBInstanceState" THEN 1 ELSE 0

\* The first of two databases was in an invalid state, the second was not.
C4_Witness ==
    /\ choice \in {"5", "6"}
    /\ Len(dbs) = 2
    /\ ~faults.rds.describe
    /\ faults.rds.outcome[dbs[1].DBInstanceIdentifier] = "InvalidDBInstanceState"
    /\ faults.rds.outcome[dbs[2].DBInstanceIdentifier] = "ok"
    /\ Len(TargetsOf(RdsApi)) = 2

(***************************************************************************)
(* C5: when update_auto_scaling_group fails on the k-th group, the groups  *)
(* up to the k-th were requested in order and none after it, the groups    *)
(* before the k-th have the new sizes, the failure is logged once and the  *)
(* exception leaves the method; when describe_auto_scaling_groups fails,   *)
(* no update is requested, the failure is logged and the exception leaves  *)
(* the method.                                                             *)
(***************************************************************************)
C5_CapacityAborts ==
    choice \in {"1", "2", "7", "8"} =>
        /\ faults.asg.describe =>
               /\ CallsOf({"update_auto_scaling_group"}) = <<>>
               /\ Len(ErrorsWith({"Error occurred while retrieving Auto Scaling Groups"})) = 1
               /\ pc = "crashed"
        /\ \A k \in DOMAIN groups :
               (~faults.asg.describe
                   /\ faults.asg.reject = {groups[k].AutoScalingGroupName})
               =>
                   LET updates == CallsOf({"update_auto_scaling_group"})
                   IN  /\ Len(updates) = k
                       /\ \A j \in 1..k :
                              updates[j].target = groups[j].AutoScalingGroupName
                       /\ \A j \in 1..(k - 1) : HasSizes(groups[j], updates[j].args)
                       /\ Len(ErrorsWith(
                              {"Error occurred while updating Auto Scaling Group"})) = 1
                       /\ pc = "crashed"

\* The second of three groups was refused.
C5_Witness ==
    /\ choice = "8"
    /\ Len(groups) = 3
    /\ ~faults.asg.describe
    /\ faults.asg.reject = {groups[2].AutoScalingGroupName}
    /\ HasSizes(groups[1], <<0, 0, 0>>)
    /\ ~HasSizes(groups[3], <<0, 0, 0>>)

(***************************************************************************)
(* C6: a step that runs check_status requests the three enumerations at    *)
(* most and leaves the provider's inventory as it was.                     *)
(***************************************************************************)
C6_StatusReadOnly ==
    [][(pc = "menu" /\ choice' = "0") =>
          /\ UNCHANGED <<reservations, dbs, groups>>
          /\ \A i \in DOMAIN calls' :
                 calls'[i].api \in {"describe_instances", "describe_db_instances",
                                    "describe_auto_scaling_groups"}]_vars

\* The three tables were printed.
C6_Witness ==
    /\ choice = "0"
    /\ Len(calls) = 3
    /\ Len(printed) = 3
    /\ Len(printed[1].rows) >= 1

(***************************************************************************)
(* C7: the session ends only when 'q' is chosen.                           *)
(***************************************************************************)
C7_OnlyQuitEnds == pc \in {"exited", "crashed"} => choice = "q"

(***************************************************************************)
(* C8: when the provider refuses a database call with another code than    *)
(* InvalidDBInstanceState, start_rds_db / stop_rds_db attempt no instance  *)
(* after it, log that error once and return to their caller.               *)
(***************************************************************************)
C8_OtherErrorAborts ==
    \A k \in DOMAIN dbs :
        (/\ choice \in {"1", "2", "5", "6"}
         /\ ~faults.rds.describe
         /\ faults.rds.outcome[dbs[k].DBInstanceIdentifier] = "AccessDenied"
         /\ \A j \in 1..(k - 1) :
                faults.rds.outcome[dbs[j].DBInstanceIdentifier] # "AccessDenied")
        =>
            /\ TargetsOf(RdsApi) = [j \in 1..k |-> dbs[j].DBInstanceIdentifier]
            /\ Len(ErrorsWith({"AccessDenied"})) = 1
            /\ choice \in {"5", "6"} => pc = "pause"
            /\ choice \in {"1", "2"} =>
                   Len(CallsOf({"describe_auto_scaling_groups"})) = 1

\* The first of two databases was refused.
C8_Witness ==
    /\ choice \in {"5", "6"}
    /\ Len(dbs) = 2
    /\ ~faults.rds.describe
    /\ faults.rds.outcome[dbs[1].DBInstanceIdentifier] = "AccessDenied"
    /\ Len(TargetsOf(RdsApi)) = 1

(***************************************************************************)
(* C9: when the enumeration raises or is empty, the four start/stop        *)
(* methods request nothing else, log one error and return to run_choice.   *)
(***************************************************************************)
C9_EnumerationFailure ==
    /\ (choice \in {"3", "4"} /\ (faults.ec2.describe \/ reservations = <<>>)) =>
           /\ calls = <<Call("describe_instances", 0, <<>>)>>
           /\ Len(logs) = 1
           /\ logs[1].level = "error"
           /\ pc = "pause"
    /\ (choice \in {"5", "6"} /\ (faults.rds.describe \/ dbs = <<>>)) =>
           /\ calls = <<Call("describe_db_instances", 0, <<>>)>>
           /\ Len(logs) = 1
           /\ logs[1].level = "error"
           /\ pc = "pause"

\* stop_ec2_instances met an empty enumeration.
C9_Witness ==
    /\ choice = "4"
    /\ ~faults.ec2.describe
    /\ reservations = <<>>
    /\ Len(logs) = 1

(***************************************************************************)
(* C10: every update_auto_scaling_group request satisfies                  *)
(* MinSize <= DesiredCapacity <= MaxSize.                                  *)
(***************************************************************************)
C10_CapacityOrdered ==
    \A i \in DOMAIN calls :
        calls[i].api = "update_auto_scaling_group" =>
            /\ calls[i].args[1] <= calls[i].args[3]
            /\ calls[i].args[3] <= calls[i].args[2]

====
